---- MODULE Spec2Model ----
(***************************************************************************)
(* Model of src/deep_research/research_manager.py: the progress queue, the *)
(* three tool functions run by the Research Manager agent, the concurrent  *)
(* search tasks, and the streaming generator ResearchManager.run.          *)
(*                                                                         *)
(* Everything runs on one asyncio event loop, so the code between two      *)
(* suspension points (await, yield) is one atomic step: each action below  *)
(* is one such segment.  Strings are modelled as sequences of text         *)
(* fragments; a fragment is <<kind, a, b>> with the numbers the f-string   *)
(* interpolates.  String concatenation (+=) is sequence concatenation.     *)
(***************************************************************************)
EXTENDS Integers, Sequences, FiniteSets

\* Largest number of searches the planner returns in the model.
MaxSearches == 2

\* Largest number of tool calls that fail in one run of the manager agent.
MaxToolErrors == 1

\* Largest number of polling passes of a second, overlapping invocation of
\* run that find the queue non-empty.
MaxOtherPolls == 1

\* The second invocation takes its steps while the first run's orchestrator
\* has pushed at most this many messages; afterwards the first run goes on
\* alone.
OverlapWindow == 2

VARIABLES
    progress_queue,      \* line 12: queue.Queue of progress messages
    accumulated_output,  \* run: the cumulative buffer
    lastYield,           \* the string handed to the consumer by the latest yield
    spc,                 \* position of the generator ResearchManager.run
    opc,                 \* position of research_task (Runner.run of research_manager)
    stage,               \* the step of the workflow the manager takes at its next turn
    plan,                \* number of searches of the SearchPlan returned by the planner
    tstate,              \* state of each asyncio task of perform_multiple_searches
    tres,                \* what each finished single_search task holds
    doneq,               \* tasks finished and not yet collected, in completion order
    results,             \* perform_multiple_searches: results
    num_completed,       \* perform_multiple_searches: num_completed
    execOutcome,         \* how perform_multiple_searches ended
    synthInput,          \* search_results received by write_research_report
    errors,              \* tool calls that failed so far
    toolError,           \* the manager's latest tool call returned an error text
    pushed,              \* history: every message passed to add_progress, in order
    finishOrder,         \* history: the search tasks in the order they finished
    succeeded,           \* history: the tasks whose search agent returned a result
    planFailed,          \* history: a planner call of this run has raised
    otherRun             \* another invocation of run: its position and its buffer

vars == <<progress_queue, accumulated_output, lastYield, spc, opc, stage, plan,
          tstate, tres, doneq, results, num_completed, execOutcome, synthInput,
          errors, toolError, pushed, finishOrder, succeeded,
          planFailed, otherRun>>

streamVars == <<accumulated_output, lastYield, spc>>
execVars == <<tstate, tres, doneq, results, num_completed, execOutcome>>
histVars == <<finishOrder, succeeded, planFailed>>

Tasks == 1..MaxSearches

\* A text fragment: the kind of message and the numbers it interpolates.
Ev(kind, a, b) == <<kind, a, b>>

\* What a settled single_search task holds.
None == 0
Raised == -1
Pending == -2

-----------------------------------------------------------------------------
(* Helpers on sequences                                                    *)

IsPrefix(s, t) == Len(s) <= Len(t) /\ SubSeq(t, 1, Len(s)) = s

Count(s, e) == Cardinality({i \in 1..Len(s) : s[i] = e})

Kinds(s) == {s[i][1] : i \in 1..Len(s)}

OfKind(s, k) == SelectSeq(s, LAMBDA e : e[1] = k)

Last(s) == s[Len(s)]

-----------------------------------------------------------------------------
(* The progress queue                                                      *)

\* add_progress for the messages one segment pushes, in order.
add_progress(msgs) ==
    /\ progress_queue' = progress_queue \o msgs
    /\ pushed' = pushed \o msgs

-----------------------------------------------------------------------------
(* Text of the frames and messages                                         *)

\* lines 149-151
StartHeader == <<Ev("hdr_start", 0, 0)>>

\* lines 156-157
AgentHeader == <<Ev("hdr_agent", 0, 0)>>

\* lines 196-197
ReportText == <<Ev("report", 0, 0)>>

\* lines 201-202
ErrorText == <<Ev("error", 0, 0)>>

FrameKinds == {"hdr_start", "hdr_agent", "report", "error"}

\* lines 34-35
PlanBeginMsgs == <<Ev("plan_begin", 0, 0), Ev("plan_query", 0, 0)>>

\* lines 40-46: the count, the list header, one line per search, a blank line
PlanDoneMsgs(n) ==
    <<Ev("plan_done", n, 0), Ev("plan_list", 0, 0)>>
    \o [i \in 1..n |-> Ev("plan_item", i, 0)]
    \o <<Ev("plan_nl", 0, 0)>>

\* line 63
ExecStartMsg(total) == Ev("exec_start", total, 0)

\* line 66
SearchStartMsg(i) == Ev("search_start", i, 0)

\* line 70
SearchOkMsg(i) == Ev("search_ok", i, 0)

\* line 73
SearchFailedMsg(i) == Ev("search_failed", i, 0)

\* Faulty variant of CountMsg: the count as it was before line 84.
CountBeforeIncrementMsg(c, total) == Ev("count", c - 1, total)

\* line 85
CountMsg(c, total) == Ev("count", c, total)

\* Faulty variant of ExecDoneMsg: the number of tasks, not of results.
ExecDoneCountsAll(n) == Ev("exec_done", plan, 0)

\* line 87
ExecDoneMsg(n) == Ev("exec_done", n, 0)

\* lines 101-103
WriteBeginMsgs(n) ==
    <<Ev("write_begin", 0, 0), Ev("write_n", n, 0), Ev("write_think", 0, 0)>>

\* lines 110-111
WriteDoneMsgs == <<Ev("write_done", 0, 0), Ev("write_sep", 0, 0)>>

PlanKinds == {"plan_begin", "plan_query", "plan_done", "plan_list", "plan_item", "plan_nl"}
ExecKinds == {"exec_start", "search_start", "search_ok", "search_failed", "count", "exec_done"}
SynthKinds == {"write_begin", "write_n", "write_think", "write_done", "write_sep"}

-----------------------------------------------------------------------------
\* The locals of one invocation of run and of the task it creates, before
\* the generator has taken its first step.
InitLocals ==
    /\ accumulated_output = <<>>
    /\ lastYield = <<>>
    /\ spc = "init"
    /\ opc = "notcreated"
    /\ stage = "plan"
    /\ plan = 0
    /\ tstate = [i \in Tasks |-> "none"]
    /\ tres = [i \in Tasks |-> Pending]
    /\ doneq = <<>>
    /\ results = <<>>
    /\ num_completed = 0
    /\ execOutcome = "none"
    /\ synthInput = <<>>
    /\ errors = 0
    /\ toolError = FALSE
    /\ pushed = <<>>
    /\ finishOrder = <<>>
    /\ succeeded = {}
    /\ planFailed = FALSE

\* line 12: the module is loaded, the queue is empty, no run has started.
Init ==
    /\ progress_queue = <<>>
    /\ otherRun = [pc |-> "init", output |-> <<>>, pushed |-> FALSE, polls |-> 0]
    /\ InitLocals

-----------------------------------------------------------------------------
(* The Research Manager agent (lines 116-132) run by Runner.run (161-163). *)
(*                                                                         *)
(* At each turn the manager model is asked for its next step.  Following   *)
(* its instructions it calls the three tools in the fixed order plan,      *)
(* search, write and then gives its final output.  The call of the manager *)
(* model is itself a remote call: when it fails, Runner.run raises.  A tool *)
(* decorated with @function_tool (lines 24, 53, 90) with no                 *)
(* failure_error_function of its own does not raise into Runner.run: the   *)
(* exception text is returned to the manager as the result of the call,    *)
(* and the manager takes its next turn (it calls the tool again or gives   *)
(* its final output).                                                      *)

\* Faulty variant of manager_raises: Runner.run is given up while a tool is
\* running, and the search tasks it created go on by themselves.
RaisesWhileSearching ==
    /\ opc \in {"turn", "executing"}
    /\ opc' = "failed"
    /\ UNCHANGED <<progress_queue, pushed, stage, plan, synthInput, errors, toolError>>
    /\ UNCHANGED <<streamVars, execVars, histVars>>
    /\ UNCHANGED otherRun

\* The manager model's call fails (or the turn limit is hit): Runner.run raises.
manager_raises ==
    /\ opc = "turn"
    /\ opc' = "failed"
    /\ UNCHANGED <<progress_queue, pushed, stage, plan, synthInput, errors, toolError>>
    /\ UNCHANGED <<streamVars, execVars, histVars>>
    /\ UNCHANGED otherRun

\* The manager gives its final output: after the report was written (step 3 of
\* the instructions), or giving up after a tool call failed.
manager_final_output ==
    /\ opc = "turn"
    /\ stage = "final" \/ toolError
    /\ opc' = "done"
    /\ UNCHANGED <<progress_queue, pushed, stage, plan, synthInput, errors, toolError>>
    /\ UNCHANGED <<streamVars, execVars, histVars>>
    /\ UNCHANGED otherRun

\* plan_research_searches, lines 34-37: up to the await of the planner agent.
plan_research_searches_call ==
    /\ opc = "turn"
    /\ stage = "plan"
    /\ add_progress(PlanBeginMsgs)
    /\ opc' = "planning"
    /\ toolError' = FALSE
    /\ UNCHANGED <<stage, plan, synthInput, errors>>
    /\ UNCHANGED <<streamVars, execVars, histVars>>
    /\ UNCHANGED otherRun

\* plan_research_searches, lines 38-51: the planner returned n searches.
plan_research_searches_return(n) ==
    /\ opc = "planning"
    /\ add_progress(PlanDoneMsgs(n))
    /\ plan' = n
    /\ stage' = "search"
    /\ opc' = "turn"
    /\ UNCHANGED <<synthInput, errors, toolError>>
    /\ UNCHANGED <<streamVars, execVars, histVars>>
    /\ UNCHANGED otherRun

\* plan_research_searches, line 37: Runner.run(planner_agent) raises.  Nothing
\* of lines 38-51 runs; the error text goes back to the manager.
plan_research_searches_raise ==
    /\ opc = "planning"
    /\ errors < MaxToolErrors
    /\ errors' = errors + 1
    /\ planFailed' = TRUE
    /\ toolError' = TRUE
    /\ opc' = "turn"
    /\ UNCHANGED <<progress_queue, pushed, stage, plan, synthInput>>
    /\ UNCHANGED <<finishOrder, succeeded>>
    /\ UNCHANGED <<streamVars, execVars>>
    /\ UNCHANGED otherRun

-----------------------------------------------------------------------------
(* perform_multiple_searches (lines 54-88) and its single_search tasks     *)

\* Faulty variant of single_search_value: no try/except, the task raises.
RaisingSearchValue(i, ok) == IF ok THEN i ELSE Raised

\* single_search, lines 71 and 74: the value the task holds when the search
\* agent returned (ok) or raised (not ok).
single_search_value(i, ok) == IF ok THEN i ELSE None

\* Faulty variant of single_search_settle_msgs: a failure pushes nothing.
UnreportedSettleMsgs(i, ok) == IF ok THEN <<SearchOkMsg(i)>> ELSE <<>>

\* single_search, lines 70 and 73: the message pushed when the task settles.
single_search_settle_msgs(i, ok) ==
    IF ok THEN <<SearchOkMsg(i)>> ELSE <<SearchFailedMsg(i)>>

\* Faulty variant of ExecReturn: an empty result list fails the pipeline.
EmptyIsFatal ==
    /\ execOutcome' = "returned"
    /\ stage' = "write"
    /\ opc' = IF results' = <<>> THEN "failed" ELSE "turn"

\* lines 87-88: the closing message and the return, once the loop is over;
\* the manager's next step is the report (step 3 of its instructions),
\* whatever the list holds.
ExecReturn ==
    /\ execOutcome' = "returned"
    /\ stage' = "write"
    /\ opc' = "turn"

\* lines 63 and 76-81: the start message, one task per search, created in plan
\* order; with no search the loop is empty and lines 87-88 run at once.  The
\* manager passes the SearchPlan that plan_research_searches returned, whose
\* total_searches is the length of its list (lines 48-51).
perform_multiple_searches_call ==
    /\ opc = "turn"
    /\ stage = "search"
    /\ tstate' = [i \in Tasks |-> IF i <= plan THEN "created" ELSE "none"]
    /\ tres' = [i \in Tasks |-> Pending]
    /\ doneq' = <<>>
    /\ results' = <<>>
    /\ num_completed' = 0
    /\ toolError' = FALSE
    /\ IF plan = 0
          THEN /\ add_progress(<<ExecStartMsg(plan), ExecDoneMsg(0)>>)
               /\ ExecReturn
          ELSE /\ add_progress(<<ExecStartMsg(plan)>>)
               /\ execOutcome' = "none"
               /\ opc' = "executing"
               /\ stage' = stage
    /\ UNCHANGED <<plan, synthInput, errors>>
    /\ UNCHANGED <<streamVars, histVars>>
    /\ UNCHANGED otherRun

\* single_search, lines 66-69: the first step of task i.  The event loop runs
\* the tasks of line 76 in the order they were created.
single_search_start(i) ==
    /\ tstate[i] = "created"
    /\ \A j \in 1..(i-1) : tstate[j] # "created"
    /\ add_progress(<<SearchStartMsg(i)>>)
    /\ tstate' = [tstate EXCEPT ![i] = "awaiting"]
    /\ UNCHANGED <<tres, doneq, results, num_completed, execOutcome>>
    /\ UNCHANGED <<opc, stage, plan, synthInput, errors, toolError>>
    /\ UNCHANGED <<streamVars, histVars>>
    /\ UNCHANGED otherRun

\* Faulty variant of AllStarted: each task is awaited before the next one is
\* created, so a reply is handled while later tasks have not started.
AwaitedOneByOne(ts) == TRUE

\* lines 76-81: every task is created on line 76, before the first await of
\* line 81 lets the event loop run; the first steps of the tasks are queued
\* ahead of the handling of any reply, so no task settles before all started.
AllStarted(ts) == \A j \in Tasks : ts[j] # "created"

\* single_search, lines 69-74: the search agent returned (ok) or raised; the
\* task pushes its message and finishes.
single_search_settle(i, ok) ==
    /\ tstate[i] = "awaiting"
    /\ AllStarted(tstate)
    /\ add_progress(single_search_settle_msgs(i, ok))
    /\ tstate' = [tstate EXCEPT ![i] = "done"]
    /\ tres' = [tres EXCEPT ![i] = single_search_value(i, ok)]
    /\ doneq' = Append(doneq, i)
    /\ finishOrder' = Append(finishOrder, i)
    /\ succeeded' = IF ok THEN succeeded \cup {i} ELSE succeeded
    /\ UNCHANGED <<results, num_completed, execOutcome, planFailed>>
    /\ UNCHANGED <<opc, stage, plan, synthInput, errors, toolError>>
    /\ UNCHANGED streamVars
    /\ UNCHANGED otherRun

\* Faulty variant of NextCompleted: the finished task earliest in the plan.
FirstSubmitted(q) == CHOOSE i \in {q[k] : k \in 1..Len(q)} :
                        \A k \in 1..Len(q) : i <= q[k]

\* line 80: the task asyncio.as_completed hands out next: the one that
\* finished first among those not yet collected.
NextCompleted(q) == Head(q)

\* lines 82-83: a result that is not None is kept.
CollectResult(res, r) == IF r # None THEN Append(res, r) ELSE res

\* Faulty variant of CountCompleted: only the successes are counted.
SkipFailed(n, r) == IF r # None THEN n + 1 ELSE n

\* line 84: every collected task is counted, whatever it returned.
CountCompleted(n, r) == n + 1

\* Faulty variant of LoopOver: the loop is left at the first failed task.
StopAtFirstFailure(n, r) == n = plan \/ r = None

\* line 80: the loop is over when as_completed has handed out every task.
LoopOver(n, r) == n = plan

\* lines 80-88: one pass of the as_completed loop, and what follows the loop
\* when that was the last task.  Awaiting a task that raised raises here: the
\* tool call fails and the error text goes back to the manager.
perform_multiple_searches_collect ==
    /\ opc = "executing"
    /\ doneq # <<>>
    /\ LET t == NextCompleted(doneq)
           r == tres[t]
           res == CollectResult(results, r)
           n == CountCompleted(num_completed, r)
       IN  /\ doneq' = SelectSeq(doneq, LAMBDA x : x # t)
           /\ IF r = Raised
                 THEN /\ execOutcome' = "raised"
                      /\ errors' = errors + 1
                      /\ toolError' = TRUE
                      /\ opc' = "turn"
                      /\ UNCHANGED <<results, num_completed, stage>>
                      /\ UNCHANGED <<progress_queue, pushed>>
                 ELSE /\ results' = res
                      /\ num_completed' = n
                      /\ UNCHANGED <<errors, toolError>>
                      /\ IF LoopOver(n, r)
                            THEN /\ add_progress(<<CountMsg(n, plan), ExecDoneMsg(Len(res))>>)
                                 /\ ExecReturn
                            ELSE /\ add_progress(<<CountMsg(n, plan)>>)
                                 /\ UNCHANGED <<execOutcome, stage, opc>>
    /\ UNCHANGED <<tstate, tres, plan, synthInput>>
    /\ UNCHANGED <<streamVars, histVars>>
    /\ UNCHANGED otherRun

-----------------------------------------------------------------------------
(* write_research_report (lines 91-113)                                    *)

\* lines 101-107: up to the await of the writer agent.  The manager passes the
\* list perform_multiple_searches returned.
write_research_report_call ==
    /\ opc = "turn"
    /\ stage = "write"
    /\ synthInput' = results
    /\ add_progress(WriteBeginMsgs(Len(results)))
    /\ toolError' = FALSE
    /\ opc' = "synthesizing"
    /\ UNCHANGED <<stage, plan, errors>>
    /\ UNCHANGED <<streamVars, execVars, histVars>>
    /\ UNCHANGED otherRun

\* lines 108-113: the writer returned the report.
write_research_report_return ==
    /\ opc = "synthesizing"
    /\ add_progress(WriteDoneMsgs)
    /\ stage' = "final"
    /\ opc' = "turn"
    /\ UNCHANGED <<plan, synthInput, errors, toolError>>
    /\ UNCHANGED <<streamVars, execVars, histVars>>
    /\ UNCHANGED otherRun

\* line 107: Runner.run(writer_agent) raises; the error text goes back to the
\* manager.
write_research_report_raise ==
    /\ opc = "synthesizing"
    /\ errors < MaxToolErrors
    /\ errors' = errors + 1
    /\ toolError' = TRUE
    /\ opc' = "turn"
    /\ UNCHANGED <<progress_queue, pushed, stage, plan, synthInput>>
    /\ UNCHANGED <<streamVars, execVars, histVars>>
    /\ UNCHANGED otherRun

-----------------------------------------------------------------------------
(* ResearchManager.run (lines 138-203), the streaming generator            *)

\* Faulty variant of run_start: the first frame is built and yielded but
\* the loop of lines 143-147 is left out, so the queue keeps what it held.
RunStartKeepsQueue ==
    /\ spc = "init"
    /\ accumulated_output' = StartHeader
    /\ lastYield' = accumulated_output'
    /\ spc' = "yield_start"
    /\ UNCHANGED <<progress_queue, opc, stage, plan, synthInput, errors, toolError, pushed>>
    /\ UNCHANGED <<execVars, histVars>>
    /\ UNCHANGED otherRun

\* lines 140-152: empty the queue, build the first frame, yield it.
run_start ==
    /\ spc = "init"
    /\ progress_queue' = <<>>
    /\ accumulated_output' = StartHeader
    /\ lastYield' = accumulated_output'
    /\ spc' = "yield_start"
    /\ UNCHANGED <<opc, stage, plan, synthInput, errors, toolError, pushed>>
    /\ UNCHANGED <<execVars, histVars>>
    /\ UNCHANGED otherRun

\* lines 154-158: resumed after the first yield; the agent header, yielded.
run_agent_header ==
    /\ spc = "yield_start"
    /\ accumulated_output' = accumulated_output \o AgentHeader
    /\ lastYield' = accumulated_output'
    /\ spc' = "yield_header"
    /\ UNCHANGED <<progress_queue, opc, stage, plan, synthInput, errors, toolError, pushed>>
    /\ UNCHANGED <<execVars, histVars>>
    /\ UNCHANGED otherRun

\* Faulty variant of PollBuffer: the new messages replace the buffer.
ReplaceByDrained(buf, msgs) == msgs

\* lines 176-179: the messages of one pass are appended to the buffer.
PollBuffer(buf, msgs) == buf \o msgs

\* Faulty variant of PollPass: one message is taken and yielded per pass.
PollOneMessage ==
    IF progress_queue # <<>>
       THEN /\ accumulated_output' = Append(accumulated_output, Head(progress_queue))
            /\ progress_queue' = Tail(progress_queue)
            /\ lastYield' = accumulated_output'
            /\ spc' = "yield_poll"
       ELSE /\ UNCHANGED <<progress_queue, accumulated_output, lastYield>>
            /\ spc' = "sleep"

\* lines 168-182: one pass of the polling loop: drain the queue; with messages,
\* append them all and yield once; with none, go to sleep.
PollPass ==
    LET messages_this_iteration == progress_queue
    IN  /\ progress_queue' = <<>>
        /\ IF messages_this_iteration # <<>>
              THEN /\ accumulated_output' =
                          PollBuffer(accumulated_output, messages_this_iteration)
                   /\ lastYield' = accumulated_output'
                   /\ spc' = "yield_poll"
              ELSE /\ UNCHANGED <<accumulated_output, lastYield>>
                   /\ spc' = "sleep"

\* lines 161-182: resumed after the second yield; research_task is created (it
\* has not run yet, so it is not done) and the loop makes its first pass.
run_create_task ==
    /\ spc = "yield_header"
    /\ opc = "notcreated"
    /\ opc' = "turn"
    /\ PollPass
    /\ UNCHANGED <<stage, plan, synthInput, errors, toolError, pushed>>
    /\ UNCHANGED <<execVars, histVars>>
    /\ UNCHANGED otherRun

\* line 182: resumed after the yield of line 179, the loop goes to sleep.
run_sleep ==
    /\ spc = "yield_poll"
    /\ spc' = "sleep"
    /\ UNCHANGED <<progress_queue, accumulated_output, lastYield>>
    /\ UNCHANGED <<opc, stage, plan, synthInput, errors, toolError, pushed>>
    /\ UNCHANGED <<execVars, histVars>>
    /\ UNCHANGED otherRun

\* Faulty variant of TaskDone: the loop does not wait for research_task.
AlwaysDone(o) == TRUE

\* line 166: research_task.done()
TaskDone(o) == o \in {"done", "failed"}

\* lines 166-182: the sleep is over and research_task is still running.
run_poll ==
    /\ spc = "sleep"
    /\ ~TaskDone(opc)
    /\ PollPass
    /\ UNCHANGED <<opc, stage, plan, synthInput, errors, toolError, pushed>>
    /\ UNCHANGED <<execVars, histVars>>
    /\ UNCHANGED otherRun

\* Faulty variant of TerminalText: a failure is not told from a result.
AlwaysReport(o) == ReportText

\* lines 194-203: the frame that ends the stream: awaiting research_task gives
\* its result (the report follows) or raises (the except clause's notice).
TerminalText(o) == IF o = "failed" THEN ErrorText ELSE ReportText

\* Faulty variant of FinalPass: the terminal frame without the final drain.
NoFinalDrain ==
    /\ accumulated_output' = accumulated_output \o TerminalText(opc)
    /\ lastYield' = accumulated_output'
    /\ spc' = "yield_terminal"
    /\ UNCHANGED progress_queue

\* Faulty variant of FinalPass: research_task is awaited before the drain, so
\* a failure jumps to the except clause and skips the drain.
DrainOnlyOnSuccess ==
    IF progress_queue # <<>> /\ opc # "failed"
       THEN /\ accumulated_output' = Append(accumulated_output, Head(progress_queue))
            /\ progress_queue' = Tail(progress_queue)
            /\ lastYield' = accumulated_output'
            /\ spc' = "yield_final"
       ELSE /\ accumulated_output' = accumulated_output \o TerminalText(opc)
            /\ lastYield' = accumulated_output'
            /\ spc' = "yield_terminal"
            /\ UNCHANGED progress_queue

\* lines 185-203: one pass of the final drain: a queued message is appended
\* and yielded on its own; with the queue empty the terminal frame follows.
FinalPass ==
    IF progress_queue # <<>>
       THEN /\ accumulated_output' = Append(accumulated_output, Head(progress_queue))
            /\ progress_queue' = Tail(progress_queue)
            /\ lastYield' = accumulated_output'
            /\ spc' = "yield_final"
       ELSE /\ accumulated_output' = accumulated_output \o TerminalText(opc)
            /\ lastYield' = accumulated_output'
            /\ spc' = "yield_terminal"
            /\ UNCHANGED progress_queue

\* lines 166 and 185-203: the sleep is over and research_task is done.
run_exit_loop ==
    /\ spc = "sleep"
    /\ TaskDone(opc)
    /\ FinalPass
    /\ UNCHANGED <<opc, stage, plan, synthInput, errors, toolError, pushed>>
    /\ UNCHANGED <<execVars, histVars>>
    /\ UNCHANGED otherRun

\* lines 185-203: resumed after the yield of line 189.
run_final_drain ==
    /\ spc = "yield_final"
    /\ FinalPass
    /\ UNCHANGED <<opc, stage, plan, synthInput, errors, toolError, pushed>>
    /\ UNCHANGED <<execVars, histVars>>
    /\ UNCHANGED otherRun

\* resumed after the yield of line 198 or 203: the generator returns.
run_end ==
    /\ spc = "yield_terminal"
    /\ spc' = "ended"
    /\ UNCHANGED <<progress_queue, accumulated_output, lastYield>>
    /\ UNCHANGED <<opc, stage, plan, synthInput, errors, toolError, pushed>>
    /\ UNCHANGED <<execVars, histVars>>
    /\ UNCHANGED otherRun

-----------------------------------------------------------------------------
Orchestrator ==
    \/ manager_raises
    \/ manager_final_output
    \/ plan_research_searches_call
    \/ \E n \in 0..MaxSearches : plan_research_searches_return(n)
    \/ plan_research_searches_raise
    \/ perform_multiple_searches_call
    \/ \E i \in Tasks : single_search_start(i)
    \/ \E i \in Tasks : \E ok \in BOOLEAN : single_search_settle(i, ok)
    \/ perform_multiple_searches_collect
    \/ write_research_report_call
    \/ write_research_report_return
    \/ write_research_report_raise

Streamer ==
    \/ run_start
    \/ run_agent_header
    \/ run_create_task
    \/ run_sleep
    \/ run_poll
    \/ run_exit_loop
    \/ run_final_drain
    \/ run_end

Next == Orchestrator \/ Streamer

Spec == Init /\ [][Next]_vars

\* The event loop resumes the generator whenever it can go on, and the consumer
\* keeps iterating it; nothing bounds the time a remote call takes.
FairSpec == Spec /\ WF_vars(Streamer)

\* lines 34-35 executed on behalf of another invocation of run. The text of
\* the first message is the same for every run; the kind records which
\* run's orchestrator pushed it.
OtherRunMsgs == <<Ev("other_plan_begin", 0, 0), Ev("other_plan_query", 0, 0)>>

OtherKinds == {"other_plan_begin", "other_plan_query"}

\* An earlier invocation of run is over (its consumer stopped iterating and
\* its orchestrator has finished) and the messages of lines 34-35 it never
\* drained are still in the module-level queue of line 12 when run is
\* invoked again.
InitAfterEarlierRun ==
    /\ progress_queue = OtherRunMsgs
    /\ otherRun = [pc |-> "ended", output |-> StartHeader, pushed |-> TRUE, polls |-> 0]
    /\ InitLocals

SpecSequential == InitAfterEarlierRun /\ [][Next]_vars

\* What a second invocation of run leaves alone: the locals of the first
\* invocation and of its orchestrator.
runLocals == <<streamVars, execVars, histVars, opc, stage, plan, synthInput,
               errors, toolError, pushed>>

\* lines 140-163 in a second invocation of run: it empties the queue of
\* line 12, which every invocation shares, and builds its own first frame.
\* Its header frame and the creation of its task touch only its own locals
\* and are folded into this step.
other_run_start ==
    /\ Len(pushed) <= OverlapWindow
    /\ otherRun.pc = "init"
    /\ progress_queue' = <<>>
    /\ otherRun' = [otherRun EXCEPT !.pc = "polling", !.output = StartHeader]
    /\ UNCHANGED runLocals

\* lines 34-35 called by the second invocation's manager agent.
other_plan_research_searches_call ==
    /\ Len(pushed) <= OverlapWindow
    /\ otherRun.pc = "polling"
    /\ ~otherRun.pushed
    /\ progress_queue' = progress_queue \o OtherRunMsgs
    /\ otherRun' = [otherRun EXCEPT !.pushed = TRUE]
    /\ UNCHANGED runLocals

\* lines 166-182 in the second invocation: one pass of its polling loop
\* that finds messages; it takes all of them, whoever pushed them.
other_run_poll ==
    /\ Len(pushed) <= OverlapWindow
    /\ otherRun.pc = "polling"
    /\ otherRun.polls < MaxOtherPolls
    /\ progress_queue # <<>>
    /\ progress_queue' = <<>>
    /\ otherRun' = [otherRun EXCEPT !.output = @ \o progress_queue,
                                     !.polls = @ + 1]
    /\ UNCHANGED runLocals

OtherRun ==
    \/ other_run_start
    \/ other_plan_research_searches_call
    \/ other_run_poll

NextOverlap == Next \/ OtherRun

\* Two invocations of run in one process, interleaved at their awaits.
SpecOverlap == Init /\ [][NextOverlap]_vars

-----------------------------------------------------------------------------
(* Properties                                                              *)

\* The messages of the queue found in a buffer, without the frame texts that
\* run appends itself.
EventsOf(s) == SelectSeq(s, LAMBDA e : e[1] \notin FrameKinds)

ExecEvents(s) == SelectSeq(s, LAMBDA e : e[1] \in ExecKinds)

Elems(s) == {s[i] : i \in 1..Len(s)}

Settled == Elems(finishOrder)

\* C1: for a plan of N searches of which k fail, perform_multiple_searches
\* never raises, and when it has returned every task has settled and the list
\* returned holds exactly the payloads of the N-k searches that succeeded, each
\* once, and nothing for a failed search (the empty list when all N failed).
C1_ReturnsSucceededPayloads ==
    /\ execOutcome # "raised"
    /\ execOutcome = "returned" =>
          /\ Settled = 1..plan
          /\ Elems(results) = succeeded
          /\ Len(results) = plan - Cardinality(Settled \ succeeded)
          /\ None \notin Elems(results)

\* C1 witness: two searches, the first failed, the second succeeded, returned.
C1_Witness ==
    /\ execOutcome = "returned"
    /\ plan = 2
    /\ succeeded = {2}
    /\ results = <<2>>

\* C2 as stated: the executor's progress events number exactly N.
C2_ExactlyNProgressEvents ==
    execOutcome = "returned" => Len(ExecEvents(pushed)) = plan

\* C2 amended: the executor pushes exactly one completed-count event per task
\* it has collected, after that task settled and whatever its outcome, N of them
\* when it returns; with the start message, the two messages of each task and
\* the closing message it has then pushed 3N+2 progress events.
C2_OneCountEventPerSettledTask ==
    /\ Len(OfKind(pushed, "count")) = num_completed
    /\ num_completed <= Len(finishOrder)
    /\ execOutcome = "returned" =>
          /\ Len(OfKind(pushed, "count")) = plan
          /\ Len(ExecEvents(pushed)) = 3 * plan + 2

\* C2 witness: two searches, one of them failed, both counted.
C2_Witness ==
    /\ execOutcome = "returned"
    /\ plan = 2
    /\ Cardinality(succeeded) = 1
    /\ Len(OfKind(pushed, "count")) = 2

\* C3: the completed-count events report 1, 2, ..., each value once and in
\* this order, always over the total N and never more than N, and the last
\* one pushed before the executor returns reports N, whatever the outcomes.
C3_CountsIncreaseToTotal ==
    LET counts == OfKind(pushed, "count")
    IN  /\ \A j \in 1..Len(counts) : counts[j][2] = j /\ counts[j][3] = plan
        /\ Len(counts) <= plan
        /\ (execOutcome = "returned" /\ plan > 0) => Last(counts)[2] = plan

\* C3 witness: two searches that both failed, counted 1/2 and 2/2.
C3_Witness ==
    /\ execOutcome = "returned"
    /\ succeeded = {}
    /\ OfKind(pushed, "count") = <<Ev("count", 1, 2), Ev("count", 2, 2)>>

\* C4: within one call of run the yielded buffer is prefix-monotonic: the
\* string of each yield is a prefix of the string of the next yield, the final
\* report frame and the error-notice frame included.
C4_YieldsPrefixMonotonic == [][IsPrefix(lastYield, lastYield')]_vars

\* C4 witness: the error notice was yielded after frames that carried
\* progress messages of the plan and of the searches.
C4_Witness ==
    /\ spc = "yield_terminal"
    /\ opc = "failed"
    /\ Last(lastYield) = Ev("error", 0, 0)
    /\ "count" \in Kinds(lastYield)

\* C5: within one call of run no message passed to add_progress is lost or
\* duplicated: the messages in the buffer followed by those still queued are
\* the messages pushed, in the order pushed (so each producer's messages keep
\* their order); every message appended to the buffer has been yielded; and
\* once research_task has completed the stream comes to its end with every
\* message pushed in the yielded buffer exactly once.
C5_EveryEventYieldedOnceInOrder ==
    /\ [](spc # "init" => EventsOf(accumulated_output) \o progress_queue = pushed)
    /\ [](lastYield = accumulated_output)
    /\ [](spc \in {"yield_terminal", "ended"} => EventsOf(lastYield) = pushed)
    /\ (opc \in {"done", "failed"} ~> (spc = "ended" /\ EventsOf(lastYield) = pushed))

\* C5 witness: the last message pushed before research_task completed was
\* missed by the polling loop and has just been yielded by the final drain.
C5_Witness ==
    /\ spc = "yield_final"
    /\ progress_queue = <<>>
    /\ Last(pushed) = Ev("write_sep", 0, 0)
    /\ EventsOf(lastYield) = pushed

\* C6: the stream's last frame is the final report when research_task
\* succeeded and the error notice when it raised, never both and never
\* neither; no earlier frame holds a report or an error notice.
C6_EndsWithReportOrErrorNotice ==
    LET ends == Kinds(lastYield) \cap {"report", "error"}
    IN  IF spc \in {"yield_terminal", "ended"}
           THEN /\ opc \in {"done", "failed"}
                /\ opc = "done" => Last(lastYield) = Ev("report", 0, 0) /\ ends = {"report"}
                /\ opc = "failed" => Last(lastYield) = Ev("error", 0, 0) /\ ends = {"error"}
                /\ Count(lastYield, Last(lastYield)) = 1
           ELSE ends = {}

\* C6 witness: research_task raised at the manager's turn that follows the
\* searches, and the stream ended with the error notice as its last frame.
C6_Witness ==
    /\ spc = "ended"
    /\ opc = "failed"
    /\ stage = "write"
    /\ Last(lastYield) = Ev("error", 0, 0)

\* C7: the stream does not end before research_task has completed, its last
\* yield is then the terminal frame, and once research_task is done or failed
\* the polling loop exits and the stream ends (the generator being resumed
\* whenever it can go on).
C7_StreamEndsAfterOrchestrator ==
    /\ [](spc \in {"yield_final", "yield_terminal", "ended"} => opc \in {"done", "failed"})
    /\ [](spc = "ended" => Last(lastYield)[1] \in {"report", "error"})
    /\ (opc \in {"done", "failed"} ~> spc = "ended")

\* C7 witness: the stream has ended after a run that went through the three
\* tools and the final drain.
C7_Witness ==
    /\ spc = "ended"
    /\ opc = "done"
    /\ stage = "final"
    /\ "write_sep" \in Kinds(lastYield)

\* C8 as stated: once a planner call has raised, no message of the Execute or
\* Synthesize stage is ever pushed or yielded in that run.
C8_NoExecuteAfterPlanFailure ==
    planFailed =>
        (Kinds(pushed) \cup Kinds(lastYield)) \cap (ExecKinds \cup SynthKinds) = {}

\* C9 as stated: a failed search is never shown to the consumer: no progress
\* event and no yielded frame reports it.
C9_FailureNeverSurfaced ==
    "search_failed" \notin (Kinds(pushed) \cup Kinds(lastYield))

\* C9 amended: a failed search is dropped from the results and is not fatal:
\* it contributes no payload, the executor does not raise, and the task pushes
\* exactly one "search failed" message (and no "completed" message) naming it,
\* which reaches the consumer like every progress message; the error notice
\* is in the buffer only when research_task itself raised.
C9_FailureReportedNotFatal ==
    /\ \A i \in Settled \ succeeded :
          /\ Count(pushed, Ev("search_failed", i, 0)) = 1
          /\ Count(pushed, Ev("search_ok", i, 0)) = 0
          /\ i \notin Elems(results)
    /\ \A i \in succeeded : Count(pushed, Ev("search_failed", i, 0)) = 0
    /\ execOutcome # "raised"
    /\ "error" \in Kinds(accumulated_output) => opc = "failed"

\* C9 witness: the stream ended with the report although search 1 failed, and
\* the yielded buffer shows the failure message and the count 2/2.
C9_Witness ==
    /\ spc = "ended"
    /\ opc = "done"
    /\ 1 \in Settled \ succeeded
    /\ Count(lastYield, Ev("search_failed", 1, 0)) = 1
    /\ Count(lastYield, Ev("count", 2, 2)) = 1

\* C10: results are collected in completion order: the tasks collected so
\* far are the first num_completed tasks that finished, the results are the
\* payloads of the succeeded ones among them in the order they finished,
\* whatever their positions in the plan, and a finished task waiting to be
\* collected is never held back by a task that is still running.
C10_CollectedInCompletionOrder ==
    /\ num_completed <= Len(finishOrder)
    /\ results = SelectSeq(SubSeq(finishOrder, 1, num_completed),
                           LAMBDA i : i \in succeeded)
    /\ execOutcome = "none" =>
          doneq = SubSeq(finishOrder, num_completed + 1, Len(finishOrder))
    /\ (opc = "executing" /\ doneq # <<>>) => ENABLED perform_multiple_searches_collect

\* C10 witness: search 2 finished first and its payload was collected, with
\* the count 1/2 pushed, while search 1, submitted before it, is still running.
C10_Witness ==
    /\ finishOrder = <<2>>
    /\ results = <<2>>
    /\ tstate[1] = "awaiting"
    /\ Count(pushed, Ev("count", 1, 2)) = 1

\* C11: the executor creates one task per plan item, and every one of the N
\* tasks has started (pushed its start message and issued its search call)
\* before any task has settled or been collected; a task that has not started
\* yet can take its first step without any other task having finished.
C11_AllStartedBeforeAnyCollected ==
    /\ (opc = "executing" \/ execOutcome = "returned") =>
          {i \in Tasks : tstate[i] # "none"} = 1..plan
    /\ (finishOrder # <<>> \/ num_completed > 0) =>
          \A i \in 1..plan :
              /\ tstate[i] \in {"awaiting", "done"}
              /\ Count(pushed, Ev("search_start", i, 0)) = 1
    /\ (\E i \in Tasks : tstate[i] = "created") =>
          /\ finishOrder = <<>>
          /\ ENABLED (\E j \in Tasks : single_search_start(j))

\* C11 witness: the first result of two searches has been collected and the
\* other search, started before that, is still awaiting its reply.
C11_Witness ==
    /\ plan = 2
    /\ num_completed = 1
    /\ finishOrder = <<1>>
    /\ tstate[2] = "awaiting"
    /\ Count(pushed, Ev("search_start", 2, 0)) = 1

\* C12: a failed search neither cancels nor fails the other tasks: while a
\* task has failed every other task of the batch is running or settled, a
\* running one can still succeed, and when the executor returns every task
\* has settled and every succeeded payload is in the returned list.
C12_FailureLeavesSiblingsRunning ==
    /\ \A i \in Settled \ succeeded :
          \A j \in (1..plan) \ {i} :
              /\ tstate[j] \in {"awaiting", "done"}
              /\ tstate[j] = "awaiting" => ENABLED single_search_settle(j, TRUE)
    /\ execOutcome # "raised"
    /\ execOutcome = "returned" =>
          /\ Settled = 1..plan
          /\ succeeded \subseteq Elems(results)

\* C12 witness: search 1 failed first, search 2 succeeded after it and its
\* payload is in the list returned.
C12_Witness ==
    /\ execOutcome = "returned"
    /\ finishOrder = <<1, 2>>
    /\ succeeded = {2}
    /\ results = <<2>>

\* The state of the pipeline's state machine the run is in.  The manager's
\* turns before the search tool is called belong to Planning, those after it
\* returned to Synthesizing; Executing is the time perform_multiple_searches
\* runs.
PipelineState ==
    CASE opc = "notcreated" -> "Idle"
      [] opc = "done" -> "Done"
      [] opc = "failed" -> "Failed"
      [] opc = "executing" -> "Executing"
      [] opc = "planning" -> "Planning"
      [] opc = "turn" /\ stage \in {"plan", "search"} -> "Planning"
      [] OTHER -> "Synthesizing"

\* The arrows of the state machine.  A plan without searches goes through
\* Executing within one step of the search tool.
PipelineArrow(a, b) ==
    \/ a = b
    \/ <<a, b>> \in {<<"Idle", "Planning">>, <<"Planning", "Executing">>,
                     <<"Executing", "Synthesizing">>, <<"Synthesizing", "Done">>,
                     <<"Planning", "Failed">>, <<"Synthesizing", "Failed">>}
    \/ a = "Planning" /\ b = "Synthesizing" /\ plan = 0

\* C13 as stated: the pipeline moves only along Idle -> Planning -> Executing
\* -> Synthesizing -> Done | Failed, and Failed is entered only from Planning
\* or Synthesizing, never because of the outcome of the searches.
C13_OnlyPipelineArrows == [][PipelineArrow(PipelineState, PipelineState')]_vars

\* The part of C13 that the code keeps: every step is an arrow of the state
\* machine or the arrow Planning -> Done, taken when the manager gives its
\* final output after the planner failed.
C13_ArrowsBesidesGivingUp ==
    [][\/ PipelineArrow(PipelineState, PipelineState')
       \/ /\ PipelineState = "Planning"
          /\ PipelineState' = "Done"
          /\ planFailed /\ toolError]_vars

\* C14: when perform_multiple_searches returns, also with an empty list
\* because every search failed, the pipeline has not failed and the next step
\* is write_research_report, which can be called; whenever it is called it
\* receives exactly the payloads of the succeeded searches (none when all
\* failed, one for two searches with one failure), and announces that number.
C14_SynthesizeGetsSucceededPayloads ==
    /\ [][(execOutcome # "returned" /\ execOutcome' = "returned") =>
             (opc' = "turn" /\ stage' = "write")]_vars
    /\ []((opc = "turn" /\ stage = "write") => ENABLED write_research_report_call)
    /\ []((opc = "synthesizing" \/ stage = "final") =>
             /\ synthInput = results
             /\ Elems(synthInput) = succeeded
             /\ Len(synthInput) = plan - Cardinality(Settled \ succeeded)
             /\ Count(pushed, Ev("write_n", Len(synthInput), 0)) >= 1)

\* C14 witness: both searches failed and write_research_report is running
\* with an empty list.
C14_Witness ==
    /\ opc = "synthesizing"
    /\ plan = 2
    /\ Settled = {1, 2}
    /\ succeeded = {}
    /\ synthInput = <<>>
    /\ Count(pushed, Ev("write_n", 0, 0)) = 1

\* C15: on the success path and on the failure path alike the terminal frame
\* is appended only with research_task complete and the queue drained: every
\* message pushed is in the buffer before the report or the error notice,
\* which is the last fragment of the buffer, and nothing is appended after it.
C15_FinalDrainBeforeTerminalFrame ==
    /\ [][(spc # "yield_terminal" /\ spc' = "yield_terminal") =>
             /\ opc \in {"done", "failed"}
             /\ progress_queue = <<>>
             /\ EventsOf(accumulated_output) = pushed
             /\ Len(accumulated_output') = Len(accumulated_output) + 1]_vars
    /\ [](spc \in {"yield_terminal", "ended"} =>
             LET n == Len(lastYield)
             IN  /\ n > 0
                 /\ lastYield[n][1] \in {"report", "error"}
                 /\ \A k \in 1..(n-1) : lastYield[k][1] \notin {"report", "error"}
                 /\ EventsOf(SubSeq(lastYield, 1, n - 1)) = pushed)
    /\ [][(spc \in {"yield_terminal", "ended"}) =>
             (accumulated_output' = accumulated_output /\ lastYield' = lastYield)]_vars

\* C15 witness: research_task raised with messages still queued, and the final
\* drain has just yielded the last of them; the error notice comes next.
C15_Witness ==
    /\ spc = "yield_final"
    /\ opc = "failed"
    /\ progress_queue = <<>>
    /\ EventsOf(lastYield) = pushed
    /\ "error" \notin Kinds(lastYield)

\* A pass of the polling loop can be taken.
AtPollPass == (spc = "sleep" /\ opc \notin {"done", "failed"}) \/ spc = "yield_header"

\* C16: a pass of the polling loop that finds the queue empty yields nothing
\* and leaves the buffer as it is; a pass that finds messages empties the
\* queue, appends all of them to the buffer in queue order and yields the
\* whole buffer, once.
C16_PollAppendsAllOrNothing ==
    [][(AtPollPass /\ <<accumulated_output, lastYield, spc>>' # <<accumulated_output, lastYield, spc>>) =>
          IF progress_queue = <<>>
             THEN /\ accumulated_output' = accumulated_output
                  /\ lastYield' = lastYield
                  /\ spc' = "sleep"
             ELSE /\ accumulated_output' = accumulated_output \o progress_queue
                  /\ lastYield' = accumulated_output'
                  /\ progress_queue' = <<>>
                  /\ spc' = "yield_poll"]_vars

\* C16 witness: one pass found the two messages that open the planning and
\* yielded the buffer with both appended.
C16_Witness ==
    /\ spc = "yield_poll"
    /\ progress_queue = <<>>
    /\ lastYield = <<Ev("hdr_start", 0, 0), Ev("hdr_agent", 0, 0),
                     Ev("plan_begin", 0, 0), Ev("plan_query", 0, 0)>>

\* C17: among the messages of the Execute stage the start message, with the
\* total N, comes first, before any task's message; the closing message is
\* pushed once, when the executor returns, after the last count message, and
\* reports the number of results returned, N-k, which is the length of the
\* list write_research_report receives.
C17_ExecuteStartAndCompletionEvents ==
    LET ex == ExecEvents(pushed)
        n == Len(ex)
    IN  /\ n > 0 => ex[1] = Ev("exec_start", plan, 0)
        /\ \A k \in 2..n : ex[k][1] # "exec_start"
        /\ \A k \in 1..(n-1) : ex[k][1] # "exec_done"
        /\ execOutcome = "none" => "exec_done" \notin Kinds(pushed)
        /\ execOutcome = "returned" =>
              /\ ex[n] = Ev("exec_done", Len(results), 0)
              /\ Len(results) = plan - Cardinality(Settled \ succeeded)
              /\ plan > 0 => ex[n-1] = Ev("count", plan, plan)
        /\ (opc = "synthesizing" \/ stage = "final") =>
              ex[n] = Ev("exec_done", Len(synthInput), 0)

\* C17 witness: two searches, one failed; the closing message reports one
\* result and write_research_report runs with a list of one.
C17_Witness ==
    /\ opc = "synthesizing"
    /\ plan = 2
    /\ Cardinality(succeeded) = 1
    /\ Last(ExecEvents(pushed)) = Ev("exec_done", 1, 0)
    /\ Len(synthInput) = 1

\* C19: once a run has yielded its terminal frame the system is quiescent:
\* research_task is complete, the progress queue is empty, every search task
\* the run created has settled and been collected, and from then on no
\* message is pushed.
C19_QuiescentAfterTerminalFrame ==
    /\ [](spc \in {"yield_terminal", "ended"} =>
             /\ opc \in {"done", "failed"}
             /\ progress_queue = <<>>
             /\ doneq = <<>>
             /\ \A i \in Tasks : tstate[i] \in {"none", "done"})
    /\ [][(spc \in {"yield_terminal", "ended"}) =>
             (pushed' = pushed /\ progress_queue' = progress_queue)]_vars

\* C19 witness: the stream ended after a run whose two searches are both
\* settled, with nothing left in the queue.
C19_Witness ==
    /\ spc = "ended"
    /\ plan = 2
    /\ tstate = [i \in Tasks |-> IF i <= 2 THEN "done" ELSE "none"]
    /\ progress_queue = <<>>
    /\ "exec_done" \in Kinds(lastYield)


-----------------------------------------------------------------------------
\* C20: run empties the progress queue before it starts its orchestrator;
\* when runs are executed one after another, a message an earlier run left
\* in the queue is never in the queue once the later run has yielded its
\* first frame, and never in the later run's buffer or in any of its yields.
C20_LeftoverNeverYielded ==
    /\ Kinds(accumulated_output) \cap OtherKinds = {}
    /\ Kinds(lastYield) \cap OtherKinds = {}
    /\ (spc # "init" => Kinds(progress_queue) \cap OtherKinds = {})
    /\ (opc # "notcreated" => spc \notin {"init", "yield_start"})

\* A later run that started on a queue holding an earlier run's messages has
\* run to its end and has yielded progress events of its own.
C20_Witness ==
    /\ otherRun.pc = "ended"
    /\ otherRun.pushed
    /\ spc = "ended"
    /\ Len(pushed) > 0
    /\ EventsOf(lastYield) = pushed


-----------------------------------------------------------------------------
\* C18: when two invocations of run overlap, every progress event pushed by
\* a run's orchestrator is yielded in that run's buffer and in no other
\* run's buffer, and none is lost because the other run started or drained
\* the queue.
C18_RunsKeepTheirOwnEvents ==
    /\ Kinds(otherRun.output) \cap (PlanKinds \cup ExecKinds \cup SynthKinds) = {}
    /\ Kinds(accumulated_output) \cap OtherKinds = {}
    /\ (spc = "ended" => EventsOf(lastYield) = pushed)

====
